---- MODULE Spec2Model ----
(***************************************************************************)
(* State-machine model of the scraping pipelines of amezon-bot:           *)
(*   "search"     src/scraper/search_scraper.py  AmazonSearchScraper       *)
(*   "ebay"       src/scraper/product_scraper.py EbayProductScraper        *)
(*   "amazon"     src/scrape/product_scraper.py  AmazonProductScraper      *)
(*   "search_v1"  src/scrape/search_scraper.py   AmazonSearchScraper       *)
(* One request runs per behaviour; pc is the position of the coroutine.    *)
(* Every await on the page or on the bot is one step whose outcome (value  *)
(* returned, or exception raised) is chosen from a small set.              *)
(***************************************************************************)
EXTENDS Integers, Sequences, FiniteSets, TLC

VARIABLES
    prog,           \* which scraper runs the request
    editId,         \* edit_message_id argument of scrape_product
    containers,     \* the result containers of the search page, in page order
    query,          \* keyword / product_name argument
    rid,            \* which request this coroutine serves
    other,          \* the locals of a suspended coroutine, <<>> when none
    pc,             \* position of the coroutine
    outcome,        \* "running" | "returned" | "raised"
    raisedBy,       \* kind of call whose exception ended the request
    session,        \* browser session: "none" | "open" | "closed"
    log,            \* status texts emitted, in order: [text, via, target]
    textSends,      \* text messages created by bot.send_message
    resends,        \* those of them sent from inside edit_message
    photoSends,     \* captions of the photos sent by bot.send_photo
    editFails,      \* edit_message_text calls that raised
    msg,            \* msg.message_id of the status message, 0 while None
    owner,          \* the chat: owner[i] is the request whose send made message i
    ops,            \* kinds of page operations performed so far
    opsAfterClose,  \* page operations performed on a session not open
    page,           \* what the page holds (per scraper, see the Init of each)
    title,          \* keywords found in the lowercased page title
    scrollN,        \* scroll cycles performed
    selIdx,         \* next selector of the ladder
    elements,       \* number of elements held by `elements`
    found_selector, \* index of the accepted selector, 0 for None
    itemIdx,        \* next item of the extraction loop
    products,       \* records appended to `products`
    screenshot,     \* "none" | "full" | "clip"
    fields,         \* product page fields read by AmazonProductScraper
    report,         \* numbered entries of the final report, with buttons
    headline        \* the query as written in the heading of the final report

statusVars == <<log, textSends, resends, photoSends, editFails, msg, owner>>
ladderVars == <<selIdx, elements, found_selector>>
pageVars   == <<page, title, scrollN, itemIdx, products, screenshot, fields>>
ctlVars    == <<prog, editId, containers, query, rid, other>>
vars == <<prog, editId, containers, query, rid, other, pc, outcome, raisedBy, session, log, textSends,
          resends, photoSends, editFails, msg, owner, ops, opsAfterClose, page, title, scrollN,
          selIdx, elements, found_selector, itemIdx, products, screenshot,
          fields, report, headline>>

----------------------------------------------------------------------------
(* Bounds and program constants *)

Raises == 0 - 1         \* a selector query that raises instead of returning

NumSelectors == 4       \* len(selectors)
ScrollCycles == 3       \* range(3)
EbayScrollCycles == 6   \* range(6)
MaxItems == 5           \* elements[:5]
SearchTitleMax == 60    \* title[:60] + "..."
AcceptThreshold == 0    \* len(elements) > 0
EbayMinTitle == 3       \* title.length < 3
EbayTitleMax == 100     \* title.substring(0, 100)
EbayPriceMax == 50      \* price.substring(0, 50)
EbayShipMax == 50       \* ship.trim().substring(0, 50)
EbayReportMax == 10     \* products[:10]
EbayReportTitleMax == 80 \* p['title'][:80]
AmazonFeatureMax == 5   \* feature_items[:5]
MaxAnchors == 2         \* anchors matched on a modelled eBay page
MaxContainers == 7      \* result containers on a modelled search page

CountVals == {Raises, 0, 2, MaxContainers}
TitleKeywords == {"captcha", "robot"}

Min(a, b) == IF a < b THEN a ELSE b

----------------------------------------------------------------------------
(* Status texts and the phase each one shows *)

Phase(text) ==
    CASE text = "Initializing"      -> "Created"
      [] text = "Loading1of4"       -> "Loading"
      [] text = "Captcha2of4"       -> "Checking"
      [] text = "Scrolling3of4"     -> "Rendering"
      [] text = "Searching4of4"     -> "Extracting"
      [] text = "CaptchaDetected"   -> "Blocked"
      [] text = "NoProductsFound"   -> "Empty"
      [] text = "MayBeBlocking"     -> "Blocked"
      [] text = "NoValidProducts"   -> "Empty"
      [] text = "Results"           -> "Succeeded"
      [] text = "Waiting2of4"       -> "Rendering"
      [] text = "Screenshot3of4"    -> "Capturing"
      [] text = "Extracting4of4"    -> "Extracting"
      [] text = "LoadingProducts"   -> "Created"
      [] text = "SearchingEbay"     -> "Created"
      [] text = "EbayLoading1of4"   -> "Loading"
      [] text = "EbayRendering2of4" -> "Rendering"
      [] text = "EbayExtracting3of4" -> "Extracting"
      [] text = "RenderedButEmpty"  -> "Empty"
      [] text = "EbayReport"        -> "Succeeded"
      [] text = "LoadingDetails"    -> "Created"
      [] text = "FetchingDetails"   -> "Created"
      [] text = "ProductDetails"    -> "Succeeded"
      [] OTHER                      -> "Unknown"

Phases(l) == [i \in 1..Len(l) |-> Phase(l[i].text)]

----------------------------------------------------------------------------
(* Texts are sequences of one-character strings *)

\* An element a locator matches, or NoEl when it matches none
El(t) == [exists |-> TRUE, innerText |-> t, textContent |-> t]
Hidden(t) == [exists |-> TRUE, innerText |-> <<>>, textContent |-> t]
NoEl == [exists |-> FALSE, innerText |-> <<>>, textContent |-> <<>>]
Blank == " "

RECURSIVE LStrip(_)
LStrip(t) == IF t # <<>> /\ Head(t) = Blank THEN LStrip(Tail(t)) ELSE t

RECURSIVE RStrip(_)
RStrip(t) ==
    IF t # <<>> /\ t[Len(t)] = Blank THEN RStrip(SubSeq(t, 1, Len(t) - 1)) ELSE t

\* str.strip() / String.prototype.trim()
Trim(t) == RStrip(LStrip(t))

\* t[:n] / t.substring(0, n)
Prefix(t, n) == SubSeq(t, 1, Min(Len(t), n))

LowerChar(c) ==
    CASE c = "S" -> "s" [] c = "B" -> "b" [] c = "M" -> "m" [] c = "U" -> "u"
      [] OTHER -> c

\* str.lower() / toLowerCase()
Lower(t) == [i \in 1..Len(t) |-> LowerChar(t[i])]

\* String.prototype.includes
Includes(t, sub) ==
    \E i \in 0..(Len(t) - Len(sub)) : SubSeq(t, i + 1, i + Len(sub)) = sub

RECURSIVE UntilBlank(_)
UntilBlank(t) ==
    IF t = <<>> \/ Head(t) = Blank THEN <<>> ELSE <<Head(t)>> \o UntilBlank(Tail(t))

\* str.split() of a text: whether it has a token, and the first one
HasToken(t) == LStrip(t) # <<>>
FirstToken(t) == UntilBlank(LStrip(t))

ShopOnEbay == <<"s","h","o","p"," ","o","n"," ","e","b","a","y">>
NA == <<"N","/","A">>
NoRating == <<"N","o"," ","r","a","t","i","n","g">>
Ellipsis == <<".",".",".">>

\* an item that is dropped instead of being appended
Skip == [ok |-> FALSE]

----------------------------------------------------------------------------
(* Pages and arguments a request may meet *)

Mouse == <<"M","o","u","s","e">>
UsbHub == <<" ","U","S","B","-","h","u","b"," ">>
Ab == <<"a","b">>
ShopAd == <<"S","h","o","p"," ","o","n"," ","e","B","a","y">>
Usd5 == <<"$","5">>
Usd9 == <<"$","9",".","5">>
FreeShip == <<"f","r","e","e">>
Href1 == <<"/","i","t","m","/","1">>
Href2 == <<"/","i","t","m","/","2","?","h","=","x">>
HrefNoId == <<"/","i","t","m","/">>

Root(h3, cls, heading, price, bold, listing, ship1, ship2) ==
    [exists |-> TRUE, h3 |-> h3, cls |-> cls, heading |-> heading, price |-> price,
     bold |-> bold, listing |-> listing, ship1 |-> ship1, ship2 |-> ship2]

NoRoot ==
    [exists |-> FALSE, h3 |-> NoEl, cls |-> NoEl, heading |-> NoEl, price |-> NoEl,
     bold |-> NoEl, listing |-> NoEl, ship1 |-> NoEl, ship2 |-> NoEl]

Anchor(href, el, root) == [href |-> href, el |-> el, root |-> root]

AnchorSamples == {
    \* first title and first price locator match
    Anchor(Href1, El(Ab), Root(El(Mouse), El(Ab), NoEl, El(Usd5), El(Usd9), NoEl, El(FreeShip), NoEl)),
    \* first locators absent or empty: later ones give title and price
    Anchor(Href2, El(UsbHub), Root(NoEl, El(<<>>), Hidden(UsbHub), El(<<>>), NoEl, El(Usd9), NoEl, NoEl)),
    \* the same identifier as the first, other content
    Anchor(Href1, El(UsbHub), Root(NoEl, NoEl, NoEl, NoEl, El(Usd9), NoEl, NoEl, El(FreeShip))),
    \* no title of three characters
    Anchor(Href2, El(Ab), Root(El(<<Blank>>), El(Mouse), NoEl, El(Usd5), NoEl, NoEl, NoEl, NoEl)),
    \* an advertisement tile
    Anchor(Href2, El(ShopAd), Root(NoEl, NoEl, NoEl, El(Usd5), NoEl, NoEl, NoEl, NoEl)),
    \* no price
    Anchor(Href2, El(Mouse), Root(NoEl, NoEl, NoEl, NoEl, El(<<Blank>>), El(Usd5), NoEl, NoEl)),
    \* no identifier, no enclosing element
    Anchor(HrefNoId, El(Mouse), Root(NoEl, NoEl, NoEl, El(Usd5), NoEl, NoEl, NoEl, NoEl)),
    Anchor(Href2, El(Mouse), NoRoot) }

Rating45 == <<"4",".","5"," ","o","u","t">>
InStock == <<" ","I","n"," ">>
Bullet == <<"U","S","B">>

EbayPages == UNION {[1..n -> AnchorSamples] : n \in 0..MaxAnchors}

AmazonPages ==
    [title : {NoEl, El(<<>>), El(UsbHub)},
     price1 : {NoEl, El(<<>>), El(Usd5)},
     price2 : {NoEl, El(<<>>), El(Usd9)},
     rating : {NoEl, El(<<>>), El(<<Blank>>), El(Rating45)},
     availability : {NoEl, El(InStock)},
     features : {<<>>, <<El(Bullet), El(<<Blank>>), El(Bullet)>>, <<El(Bullet), NoEl>>},
     prime : BOOLEAN]

SearchPages == [1..NumSelectors -> CountVals]

Asin1 == <<"B","0","1">>
Asin2 == <<"B","0","2">>
LongTitle == [i \in 1..(SearchTitleMax + 1) |-> "x"]
SnakeTitle == <<"A","_","B">>

Item(asin, t, p, r, raises) ==
    [asin |-> asin, title |-> t, price |-> p, rating |-> r, raises |-> raises]

\* the containers a search page may hold
SearchItems == {
    Item(Asin1, El(Mouse), El(Usd5), El(Rating45), FALSE),
    \* a title longer than 60 characters, no price, no rating
    Item(Asin2, El(LongTitle), NoEl, NoEl, FALSE),
    \* no title element
    Item(Asin1, NoEl, El(Usd9), NoEl, FALSE),
    \* no data-asin attribute
    Item(<<>>, El(Mouse), El(Usd5), El(Rating45), FALSE),
    \* a rating element whose text has no token
    Item(Asin2, El(Mouse), El(Usd5), El(<<Blank>>), FALSE),
    \* a read of the item raises (timeout)
    Item(Asin2, El(Mouse), El(Usd5), El(Rating45), TRUE),
    \* a title with a character Markdown gives a meaning to
    Item(Asin2, El(SnakeTitle), El(Usd5), El(Rating45), FALSE) }

\* a page of n well-formed containers with distinct ASINs
Asin(i) == <<"B", "0", <<"1","2","3","4","5","6","7","8","9">>[i]>>
Plain(n) == [i \in 1..n |-> Item(Asin(i), El(Mouse), El(Usd5), El(Rating45), FALSE)]
NoAsins(n) == [i \in 1..n |-> Item(<<>>, El(Mouse), El(Usd5), El(Rating45), FALSE)]

\* the same page with one sample container at one or at two positions
ContainerLists ==
    {Plain(MaxContainers), NoAsins(MaxContainers)} \cup
    {[Plain(MaxContainers) EXCEPT ![i] = s, ![j] = s] :
        i \in 1..MaxContainers, j \in 1..MaxContainers, s \in SearchItems}

\* each selector of the ladder addresses the result containers: a selector
\* that yields n elements yields the first n containers of the page. Every
\* ladder outcome is combined with two container lists, and every container
\* list with the pages on which the first selector matches.
SearchWorlds ==
    LET FewContainers == {Plain(MaxContainers), NoAsins(MaxContainers)}
        FewPages == {[i \in 1..NumSelectors |-> IF i = 1 THEN n ELSE 0] :
                        n \in {2, MaxContainers}}
    IN  {[page |-> pg, containers |-> cs] : pg \in SearchPages, cs \in FewContainers} \cup
        {[page |-> pg, containers |-> cs] : pg \in FewPages, cs \in ContainerLists}

SearchV1Pages == [results : {0, 5}]

EditIds == {"None", "undefined", "42"}

\* keyword / product_name
QuerySamples == {<<"A","_","B","*","C">>, <<"a","\\","b",".">>}

----------------------------------------------------------------------------
(* Helpers shared by the scrapers *)

\* `async with async_playwright() as p`: leaving the block, by return or by
\* an exception, stops the driver, which closes a browser still open.
ExitScope_NoRelease(s) == s

ExitScope(s) == IF s = "open" THEN "closed" ELSE s

\* An exception propagates out of the coroutine.
Abort(by) ==
    /\ pc' = "done"
    /\ outcome' = "raised"
    /\ raisedBy' = by
    /\ session' = ExitScope(session)

\* `return` (or falling off the end of the coroutine).
Return ==
    /\ pc' = "done"
    /\ outcome' = "returned"
    /\ raisedBy' = raisedBy
    /\ session' = ExitScope(session)

\* Control moves on inside the coroutine.
Goto_(label) ==
    /\ pc' = label
    /\ UNCHANGED <<outcome, raisedBy, session>>

\* the message identifier handed to edit_message: int(edit_message_id) when
\* the caller gave one, else msg.message_id
IntOf(e) == IF e = "42" THEN 42 ELSE 0
TrackedId == IF IntOf(editId) # 0 THEN IntOf(editId) ELSE msg

\* A page operation of the given kind is performed on the session.
PageOp(kind) ==
    /\ ops' = ops \cup {kind}
    /\ opsAfterClose' = IF session = "open" THEN opsAfterClose
                        ELSE opsAfterClose \cup {kind}

NoPageOp == UNCHANGED <<ops, opsAfterClose>>

EditMessageSearch_Resend(text) ==
    /\ UNCHANGED <<msg, owner>>
    /\ log' = Append(log, [text |-> text, via |-> "edit", target |-> "tracked",
                         msg |-> TrackedId])
    /\ UNCHANGED photoSends
    /\ \/ UNCHANGED <<editFails, textSends, resends>>
       \/ /\ editFails' = editFails + 1
          /\ textSends' = textSends + 1
          /\ resends' = resends + 1

\* edit_message as it would be if a failed edit were replaced by a new
\* message that becomes the status message of the later edits
EditMessageSearch_Retrack(text) ==
    /\ log' = Append(log, [text |-> text, via |-> "edit", target |-> "tracked",
                         msg |-> TrackedId])
    /\ UNCHANGED photoSends
    /\ \/ UNCHANGED <<editFails, textSends, resends, msg, owner>>
       \/ /\ editFails' = editFails + 1
          /\ textSends' = textSends + 1
          /\ resends' = resends + 1
          /\ msg' = Len(owner) + 1
          /\ owner' = Append(owner, rid)

\* AmazonSearchScraper.edit_message: the edit is attempted; an exception of
\* edit_message_text is printed and swallowed.
EditMessageSearch(text) ==
    \E ok \in BOOLEAN :
        /\ log' = Append(log, [text |-> text, via |-> "edit", target |-> "tracked",
                         msg |-> TrackedId])
        /\ editFails' = IF ok THEN editFails ELSE editFails + 1
        /\ UNCHANGED <<textSends, resends, photoSends, msg, owner>>

IsBlocked_RobotOnly(t) == "robot" \in t

\* the test of line 91 on the page title
IsBlocked(t) == "captcha" \in t \/ "robot" \in t

Accepts_AtLeast(n) == n >= AcceptThreshold

\* the test of line 130 on the elements a selector yields
Accepts(n) == n > AcceptThreshold

----------------------------------------------------------------------------
(* AmazonSearchScraper.scrape_search, src/scraper/search_scraper.py *)

\* every button made with the identifier of the first record
SearchReport_FirstToken(ps) ==
    [i \in 1..Len(ps) |->
        [n |-> i, title |-> ps[i].title, price |-> ps[i].price,
         rating |-> ps[i].rating, asin |-> ps[i].asin, button |-> ps[1].asin]]

\* the entries of the report and their buttons (lines 220-229)
SearchReport(ps) ==
    [i \in 1..Len(ps) |->
        [n |-> i, title |-> ps[i].title, price |-> ps[i].price,
         rating |-> ps[i].rating, asin |-> ps[i].asin, button |-> ps[i].asin]]

S_SendInit ==
    /\ prog = "search" /\ pc = "start"
    /\ \/ /\ log' = Append(log, [text |-> "Initializing", via |-> "send", target |-> "tracked",
                                  msg |-> Len(owner) + 1])
          /\ textSends' = textSends + 1
          /\ msg' = Len(owner) + 1
          /\ owner' = Append(owner, rid)
          /\ Goto_("launch")
          /\ UNCHANGED <<resends, photoSends, editFails>>
       \/ /\ Abort("messaging")
          /\ UNCHANGED statusVars
    /\ NoPageOp
    /\ UNCHANGED <<ctlVars, pageVars, ladderVars>>
    /\ UNCHANGED <<report, headline>>

S_Launch ==
    /\ prog = "search" /\ pc = "launch"
    /\ \/ /\ pc' = "edit_loading"
          /\ session' = "open"
          /\ UNCHANGED <<outcome, raisedBy>>
       \/ Abort("launch")
    /\ NoPageOp
    /\ UNCHANGED <<ctlVars, statusVars, pageVars, ladderVars>>
    /\ UNCHANGED <<report, headline>>

S_EditLoading ==
    /\ prog = "search" /\ pc = "edit_loading"
    /\ EditMessageSearch("Loading1of4")
    /\ Goto_("goto")
    /\ NoPageOp
    /\ UNCHANGED <<ctlVars, pageVars, ladderVars>>
    /\ UNCHANGED <<report, headline>>

S_Goto ==
    /\ prog = "search" /\ pc = "goto"
    /\ PageOp("goto")
    /\ \/ Goto_("edit_captcha")
       \/ Abort("navigation")
    /\ UNCHANGED <<ctlVars, statusVars, pageVars, ladderVars>>
    /\ UNCHANGED <<report, headline>>

S_EditCaptcha ==
    /\ prog = "search" /\ pc = "edit_captcha"
    /\ EditMessageSearch("Captcha2of4")
    /\ Goto_("title")
    /\ NoPageOp
    /\ UNCHANGED <<ctlVars, pageVars, ladderVars>>
    /\ UNCHANGED <<report, headline>>

S_ReadTitle ==
    /\ prog = "search" /\ pc = "title"
    /\ PageOp("title")
    /\ \/ \E t \in SUBSET TitleKeywords :
            /\ title' = t
            /\ Goto_(IF IsBlocked(t) THEN "blocked_edit" ELSE "edit_scroll")
       \/ /\ Abort("page")
          /\ UNCHANGED title
    /\ UNCHANGED <<ctlVars, statusVars, ladderVars, page, scrollN, itemIdx,
                   products, screenshot, fields>>
    /\ UNCHANGED <<report, headline>>

S_BlockedEdit ==
    /\ prog = "search" /\ pc = "blocked_edit"
    /\ EditMessageSearch("CaptchaDetected")
    /\ Goto_("blocked_close")
    /\ NoPageOp
    /\ UNCHANGED <<ctlVars, pageVars, ladderVars>>
    /\ UNCHANGED <<report, headline>>

\* lines 96-97 as they would be without the `return`: the browser is closed
\* and the request goes on to the scroll step
S_BlockedClose_NoReturn ==
    /\ prog = "search" /\ pc = "blocked_close"
    /\ session' = "closed"
    /\ pc' = "edit_scroll" /\ UNCHANGED <<outcome, raisedBy>>
    /\ NoPageOp
    /\ UNCHANGED <<ctlVars, statusVars, pageVars, ladderVars>>
    /\ UNCHANGED <<report, headline>>

S_BlockedClose ==
    /\ prog = "search" /\ pc = "blocked_close"
    /\ session' = "closed"
    /\ pc' = "done" /\ outcome' = "returned" /\ UNCHANGED raisedBy
    /\ NoPageOp
    /\ UNCHANGED <<ctlVars, statusVars, pageVars, ladderVars>>
    /\ UNCHANGED <<report, headline>>

S_EditScroll ==
    /\ prog = "search" /\ pc = "edit_scroll"
    /\ EditMessageSearch("Scrolling3of4")
    /\ Goto_("scroll")
    /\ NoPageOp
    /\ UNCHANGED <<ctlVars, pageVars, ladderVars>>
    /\ UNCHANGED <<report, headline>>

S_Scroll ==
    /\ prog = "search" /\ pc = "scroll"
    /\ PageOp("scroll")
    /\ \/ /\ scrollN' = scrollN + 1
          /\ Goto_(IF scrollN + 1 < ScrollCycles THEN "scroll" ELSE "edit_search")
       \/ /\ Abort("page")
          /\ UNCHANGED scrollN
    /\ UNCHANGED <<ctlVars, statusVars, ladderVars, page, title, itemIdx,
                   products, screenshot, fields>>
    /\ UNCHANGED <<report, headline>>

S_EditSearch_Skipped ==
    /\ prog = "search" /\ pc = "edit_search"
    /\ Goto_("ladder")
    /\ NoPageOp
    /\ UNCHANGED <<ctlVars, statusVars, pageVars, ladderVars, report, headline>>

S_EditSearch ==
    /\ prog = "search" /\ pc = "edit_search"
    /\ EditMessageSearch("Searching4of4")
    /\ Goto_("ladder")
    /\ NoPageOp
    /\ UNCHANGED <<ctlVars, pageVars, ladderVars>>
    /\ UNCHANGED <<report, headline>>

\* One iteration of `for selector in selectors`: the query either raises
\* (caught, continue), yields an accepted list (break) or is passed over.
\* `elements` keeps what the last query that returned has yielded.
S_LadderStep ==
    /\ prog = "search" /\ pc = "ladder"
    /\ selIdx <= NumSelectors
    /\ PageOp("query")
    /\ IF page[selIdx] = Raises
       THEN /\ UNCHANGED <<elements, found_selector>>
            /\ selIdx' = selIdx + 1
            /\ Goto_(IF selIdx = NumSelectors THEN "after_ladder" ELSE "ladder")
       ELSE /\ elements' = page[selIdx]
            /\ IF Accepts(page[selIdx])
               THEN /\ found_selector' = selIdx
                    /\ selIdx' = selIdx
                    /\ Goto_("after_ladder")
               ELSE /\ UNCHANGED found_selector
                    /\ selIdx' = selIdx + 1
                    /\ Goto_(IF selIdx = NumSelectors THEN "after_ladder" ELSE "ladder")
    /\ UNCHANGED <<ctlVars, statusVars, pageVars>>
    /\ UNCHANGED <<report, headline>>

\* `if not elements:` (line 140)
S_AfterLadder ==
    /\ prog = "search" /\ pc = "after_ladder"
    /\ Goto_(IF elements = 0 THEN "empty_edit" ELSE "shot")
    /\ NoPageOp
    /\ UNCHANGED <<ctlVars, statusVars, pageVars, ladderVars>>
    /\ UNCHANGED <<report, headline>>

S_EmptyEdit ==
    /\ prog = "search" /\ pc = "empty_edit"
    /\ EditMessageSearch("NoProductsFound")
    /\ Goto_("empty_shot")
    /\ NoPageOp
    /\ UNCHANGED <<ctlVars, pageVars, ladderVars>>
    /\ UNCHANGED <<report, headline>>

S_EmptyShot ==
    /\ prog = "search" /\ pc = "empty_shot"
    /\ PageOp("screenshot")
    /\ \/ /\ screenshot' = "full"
          /\ Goto_("empty_photo")
       \/ /\ Abort("page")
          /\ UNCHANGED screenshot
    /\ UNCHANGED <<ctlVars, statusVars, ladderVars, page, title, scrollN,
                   itemIdx, products, fields, report, headline>>

S_EmptyPhoto ==
    /\ prog = "search" /\ pc = "empty_photo"
    /\ \/ /\ photoSends' = Append(photoSends, [photo |-> screenshot, caption |-> "DebugInfo", query |-> query,
                                           parse_mode |-> "None"])
          /\ Goto_("empty_edit2")
       \/ /\ Abort("messaging")
          /\ UNCHANGED photoSends
    /\ NoPageOp
    /\ UNCHANGED <<ctlVars, log, textSends, resends, editFails, msg, owner, pageVars, ladderVars>>
    /\ UNCHANGED <<report, headline>>

S_EmptyEdit2 ==
    /\ prog = "search" /\ pc = "empty_edit2"
    /\ EditMessageSearch("MayBeBlocking")
    /\ Goto_("empty_close")
    /\ NoPageOp
    /\ UNCHANGED <<ctlVars, pageVars, ladderVars>>
    /\ UNCHANGED <<report, headline>>

S_EmptyClose ==
    /\ prog = "search" /\ pc = "empty_close"
    /\ session' = "closed"
    /\ pc' = "done" /\ outcome' = "returned" /\ UNCHANGED raisedBy
    /\ NoPageOp
    /\ UNCHANGED <<ctlVars, statusVars, pageVars, ladderVars>>
    /\ UNCHANGED <<report, headline>>

S_Shot ==
    /\ prog = "search" /\ pc = "shot"
    /\ PageOp("screenshot")
    /\ \/ /\ screenshot' = "clip"
          /\ Goto_("extract")
       \/ /\ Abort("page")
          /\ UNCHANGED screenshot
    /\ UNCHANGED <<ctlVars, statusVars, ladderVars, page, title, scrollN,
                   itemIdx, products, fields, report, headline>>

\* lines 168-198: what one iteration of the loop does with an item. The
\* record appended, or Skip when the ASIN is missing or a read raised (the
\* exception is caught, and covers the IndexError of split()[0] on a rating
\* text without a token).
SearchItem(item) ==
    IF item.raises THEN Skip
    ELSE LET t == IF item.title.exists THEN item.title.innerText ELSE NA
             tt == IF Len(t) > SearchTitleMax
                   THEN Prefix(t, SearchTitleMax) \o Ellipsis ELSE t
             pr == IF item.price.exists THEN item.price.innerText ELSE NA
             r == IF item.rating.exists THEN item.rating.innerText ELSE NoRating
         IN  IF r # NoRating /\ ~HasToken(r) THEN Skip
             ELSE IF item.asin = <<>> THEN Skip
             ELSE [ok |-> TRUE, asin |-> item.asin, title |-> tt, price |-> pr,
                   rating |-> IF r # NoRating THEN FirstToken(r) ELSE r]

\* the loop as it would be with one try/except around the whole loop: the
\* first item that raises ends the loop
S_ExtractItem_LoopEnds ==
    /\ prog = "search" /\ pc = "extract"
    /\ itemIdx <= Min(elements, MaxItems)
    /\ PageOp("extract")
    /\ LET r == SearchItem(containers[itemIdx])
           failed == containers[itemIdx].raises
       IN  /\ products' = IF r.ok THEN Append(products, r) ELSE products
           /\ Goto_(IF failed \/ itemIdx = Min(elements, MaxItems)
                    THEN "close" ELSE "extract")
    /\ itemIdx' = itemIdx + 1
    /\ UNCHANGED <<ctlVars, statusVars, ladderVars, page, title, scrollN,
                   screenshot, fields, report, headline>>

\* One iteration of `for i, item in enumerate(items)`.
S_ExtractItem ==
    /\ prog = "search" /\ pc = "extract"
    /\ itemIdx <= Min(elements, MaxItems)
    /\ PageOp("extract")
    /\ LET r == SearchItem(containers[itemIdx])
       IN  products' = IF r.ok THEN Append(products, r) ELSE products
    /\ itemIdx' = itemIdx + 1
    /\ Goto_(IF itemIdx = Min(elements, MaxItems) THEN "close" ELSE "extract")
    /\ UNCHANGED <<ctlVars, statusVars, ladderVars, page, title, scrollN,
                   screenshot, fields, report, headline>>

\* lines 200-207 as they would be without the `if not products:` guard, as
\* in src/scrape/search_scraper.py lines 110-117
S_Close_NoGuard ==
    /\ prog = "search" /\ pc = "close"
    /\ session' = "closed"
    /\ pc' = "photo"
    /\ UNCHANGED <<outcome, raisedBy>>
    /\ NoPageOp
    /\ UNCHANGED <<ctlVars, statusVars, pageVars, ladderVars>>
    /\ UNCHANGED <<report, headline>>

S_Close ==
    /\ prog = "search" /\ pc = "close"
    /\ session' = "closed"
    /\ pc' = IF products = <<>> THEN "novalid_edit" ELSE "photo"
    /\ UNCHANGED <<outcome, raisedBy>>
    /\ NoPageOp
    /\ UNCHANGED <<ctlVars, statusVars, pageVars, ladderVars>>
    /\ UNCHANGED <<report, headline>>

S_NoValidEdit ==
    /\ prog = "search" /\ pc = "novalid_edit"
    /\ EditMessageSearch("NoValidProducts")
    /\ Return
    /\ NoPageOp
    /\ UNCHANGED <<ctlVars, pageVars, ladderVars>>
    /\ UNCHANGED <<report, headline>>

S_SendPhoto ==
    /\ prog = "search" /\ pc = "photo"
    /\ \/ /\ photoSends' = Append(photoSends, [photo |-> screenshot, caption |-> "SearchResults", query |-> query,
                                           parse_mode |-> "None"])
          /\ Goto_("final_edit")
       \/ /\ Abort("messaging")
          /\ UNCHANGED photoSends
    /\ NoPageOp
    /\ UNCHANGED <<ctlVars, log, textSends, resends, editFails, msg, owner, pageVars, ladderVars>>
    /\ UNCHANGED <<report, headline>>

S_FinalEdit ==
    /\ prog = "search" /\ pc = "final_edit"
    /\ report' = SearchReport(products)
    /\ headline' = query
    /\ EditMessageSearch("Results")
    /\ Return
    /\ NoPageOp
    /\ UNCHANGED <<ctlVars, pageVars, ladderVars>>

SearchNext ==
    \/ S_SendInit \/ S_Launch \/ S_EditLoading \/ S_Goto \/ S_EditCaptcha
    \/ S_ReadTitle \/ S_BlockedEdit \/ S_BlockedClose \/ S_EditScroll
    \/ S_Scroll \/ S_EditSearch \/ S_LadderStep \/ S_AfterLadder
    \/ S_EmptyEdit \/ S_EmptyShot \/ S_EmptyPhoto \/ S_EmptyEdit2
    \/ S_EmptyClose \/ S_Shot \/ S_ExtractItem \/ S_Close \/ S_NoValidEdit
    \/ S_SendPhoto \/ S_FinalEdit

----------------------------------------------------------------------------
(* Product scrapers: edit_message and the edit_message_id argument *)

\* `if edit_message_id and edit_message_id != "undefined"` (EbayProductScraper)
EbayHasEditId(e) == e # "None" /\ e # "undefined"

\* `if edit_message_id` (AmazonProductScraper)
AmazonHasEditId(e) == e # "None"

Step(next) == IF next = "done" THEN Return ELSE Goto_(next)

\* EbayProductScraper.edit_message / AmazonProductScraper.edit_message: when
\* edit_message_text raises, the same text is sent as a new message; an
\* exception of that send_message propagates.
EditMessageProduct(text, next) ==
    /\ UNCHANGED <<msg, owner>>
    /\ log' = Append(log, [text |-> text, via |-> "edit", target |-> "tracked",
                         msg |-> TrackedId])
    /\ UNCHANGED photoSends
    /\ \/ /\ UNCHANGED <<editFails, textSends, resends>>
          /\ Step(next)
       \/ /\ editFails' = editFails + 1
          /\ textSends' = textSends + 1
          /\ resends' = resends + 1
          /\ Step(next)
       \/ /\ editFails' = editFails + 1
          /\ UNCHANGED <<textSends, resends>>
          /\ Abort("messaging")

\* An edit made only when the caller supplied a message identifier.
EbayEditIfId(text, next) ==
    IF EbayHasEditId(editId)
    THEN EditMessageProduct(text, next)
    ELSE /\ Step(next)
         /\ UNCHANGED statusVars

----------------------------------------------------------------------------
(* The in-page extraction script of EbayProductScraper.scrape_product *)

Backslash == "\\"
\* the punctuation string of _esc, in its order; "grave" is the grave accent,
\* which a string of the module cannot hold
EscChars == <<"_","[","]","(",")","*","~","grave",">","#","+","=","|","{","}",".","!","-">>
Slash == "/"
QMark == "?"

RECURSIVE AfterLastSlash(_)
AfterLastSlash(t) ==
    IF t = <<>> \/ t[Len(t)] = Slash THEN <<>>
    ELSE AfterLastSlash(SubSeq(t, 1, Len(t) - 1)) \o <<t[Len(t)]>>

RECURSIVE BeforeQMark(_)
BeforeQMark(t) ==
    IF t = <<>> \/ Head(t) = QMark THEN <<>> ELSE <<Head(t)>> \o BeforeQMark(Tail(t))

\* href.split('/').pop().split('?')[0]
IdOf(href) == BeforeQMark(AfterLastSlash(href))

\* el.innerText || el.textContent || ''
TextOf(el) == IF el.innerText # <<>> THEN el.innerText ELSE el.textContent

\* [el1, el2, ...].forEach(el => { if (!v && el) v = text of el })
RECURSIVE LadderFold(_, _)
LadderFold(els, acc) ==
    IF els = <<>> THEN acc
    ELSE LadderFold(Tail(els),
                    IF acc = <<>> /\ Head(els) # NoEl THEN TextOf(Head(els)) ELSE acc)

LadderText(els) == LadderFold(els, <<>>)

EbayTitleEls(a) == <<a.root.h3, a.root.cls, a.root.heading, a.el>>
EbayPriceEls(a) == <<a.root.price, a.root.bold, a.root.listing>>

EbayTitleOk(t) == t # <<>> /\ ~Includes(Lower(t), ShopOnEbay) /\ Len(t) >= EbayMinTitle

\* shippingEl = querySelector(shipping) || querySelector(SHIPPING)
EbayShip(a) ==
    LET el == IF a.root.ship1 # NoEl THEN a.root.ship1 ELSE a.root.ship2
    IN  IF el = NoEl THEN <<>> ELSE TextOf(el)


\* the body of the forEach over the anchors: the record pushed, or Skip
EbayItem(a, seen) ==
    LET id == IdOf(a.href) IN
    IF id = <<>> \/ id \in seen THEN Skip
    ELSE IF ~a.root.exists THEN Skip
    ELSE LET t == Trim(LadderText(EbayTitleEls(a))) IN
         IF ~EbayTitleOk(t) THEN Skip
         ELSE LET pr == Trim(LadderText(EbayPriceEls(a))) IN
              IF pr = <<>> THEN Skip
              ELSE [ok |-> TRUE, id |-> id,
                    title |-> Prefix(t, EbayTitleMax),
                    price |-> Prefix(pr, EbayPriceMax),
                    ship |-> Prefix(Trim(EbayShip(a)), EbayShipMax)]

RECURSIVE EbayLoop(_, _, _)
EbayLoop(anchors, items, seen) ==
    IF anchors = <<>> THEN items
    ELSE LET r == EbayItem(Head(anchors), seen) IN
         IF ~r.ok THEN EbayLoop(Tail(anchors), items, seen)
         ELSE EbayLoop(Tail(anchors), Append(items, r), seen \cup {r.id})

EbayExtract(anchors) == EbayLoop(anchors, <<>>, {})

\* text.replace(ch, "\\" + ch): every occurrence of ch gets a backslash
RECURSIVE Replace(_, _)
Replace(t, ch) ==
    IF t = <<>> THEN <<>>
    ELSE (IF Head(t) = ch THEN <<Backslash, ch>> ELSE <<Head(t)>>) \o Replace(Tail(t), ch)

RECURSIVE ReplaceAll(_, _)
ReplaceAll(t, chs) ==
    IF chs = <<>> THEN t ELSE ReplaceAll(Replace(t, Head(chs)), Tail(chs))

\* the punctuation passes run first and the backslash pass last
Esc_BackslashLast(text) == Replace(ReplaceAll(text, EscChars), Backslash)

\* EbayProductScraper._esc: the backslash pass, then one pass per character
\* of the punctuation string, in its order
Esc(text) == ReplaceAll(Replace(text, Backslash), EscChars)

\* the entries of the report and their buttons (lines 183-194); the `ship`
\* part is written only for a non-empty ship
EbayReport(ps) ==
    [i \in 1..Min(Len(ps), EbayReportMax) |->
        [n |-> i, title |-> Esc(Prefix(ps[i].title, EbayReportTitleMax)),
         price |-> Esc(ps[i].price), ship |-> Esc(ps[i].ship), button |-> ps[i].id]]

----------------------------------------------------------------------------
(* EbayProductScraper.scrape_product, src/scraper/product_scraper.py *)

E_Start ==
    /\ prog = "ebay" /\ pc = "start"
    /\ IF EbayHasEditId(editId)
       THEN EditMessageProduct("LoadingProducts", "launch")
       ELSE \/ /\ log' = Append(log, [text |-> "SearchingEbay", via |-> "send", target |-> "tracked",
                                  msg |-> Len(owner) + 1])
               /\ textSends' = textSends + 1
               /\ msg' = Len(owner) + 1
               /\ owner' = Append(owner, rid)
               /\ Goto_("launch")
               /\ UNCHANGED <<resends, photoSends, editFails>>
            \/ /\ Abort("messaging")
               /\ UNCHANGED statusVars
    /\ NoPageOp
    /\ UNCHANGED <<ctlVars, pageVars, ladderVars, report, headline>>

E_Launch ==
    /\ prog = "ebay" /\ pc = "launch"
    /\ \/ /\ pc' = "edit_loading"
          /\ session' = "open"
          /\ UNCHANGED <<outcome, raisedBy>>
       \/ Abort("launch")
    /\ NoPageOp
    /\ UNCHANGED <<ctlVars, statusVars, pageVars, ladderVars, report, headline>>

E_EditLoading ==
    /\ prog = "ebay" /\ pc = "edit_loading"
    /\ EbayEditIfId("EbayLoading1of4", "goto")
    /\ NoPageOp
    /\ UNCHANGED <<ctlVars, pageVars, ladderVars, report, headline>>

E_Goto ==
    /\ prog = "ebay" /\ pc = "goto"
    /\ PageOp("goto")
    /\ \/ Goto_("edit_render")
       \/ Abort("navigation")
    /\ UNCHANGED <<ctlVars, statusVars, pageVars, ladderVars, report, headline>>

E_EditRender ==
    /\ prog = "ebay" /\ pc = "edit_render"
    /\ EbayEditIfId("EbayRendering2of4", "scroll")
    /\ NoPageOp
    /\ UNCHANGED <<ctlVars, pageVars, ladderVars, report, headline>>

E_Scroll ==
    /\ prog = "ebay" /\ pc = "scroll"
    /\ PageOp("scroll")
    /\ \/ /\ scrollN' = scrollN + 1
          /\ Goto_(IF scrollN + 1 < EbayScrollCycles THEN "scroll" ELSE "edit_extract")
       \/ /\ Abort("page")
          /\ UNCHANGED scrollN
    /\ UNCHANGED <<ctlVars, statusVars, ladderVars, page, title, itemIdx,
                   products, screenshot, fields, report, headline>>

E_EditExtract ==
    /\ prog = "ebay" /\ pc = "edit_extract"
    /\ EbayEditIfId("EbayExtracting3of4", "wait")
    /\ NoPageOp
    /\ UNCHANGED <<ctlVars, pageVars, ladderVars, report, headline>>

\* wait_for_selector inside try/except: a timeout is printed and ignored
E_Wait ==
    /\ prog = "ebay" /\ pc = "wait"
    /\ PageOp("wait")
    /\ Goto_("evaluate")
    /\ UNCHANGED <<ctlVars, statusVars, pageVars, ladderVars, report, headline>>

E_Evaluate ==
    /\ prog = "ebay" /\ pc = "evaluate"
    /\ PageOp("extract")
    /\ \/ /\ products' = EbayExtract(page)
          /\ Goto_("shot")
       \/ /\ Abort("page")
          /\ UNCHANGED products
    /\ UNCHANGED <<ctlVars, statusVars, ladderVars, page, title, scrollN,
                   itemIdx, screenshot, fields, report, headline>>

E_Shot ==
    /\ prog = "ebay" /\ pc = "shot"
    /\ PageOp("screenshot")
    /\ \/ /\ screenshot' = "clip"
          /\ Goto_("close")
       \/ /\ Abort("page")
          /\ UNCHANGED screenshot
    /\ UNCHANGED <<ctlVars, statusVars, ladderVars, page, title, scrollN,
                   itemIdx, products, fields, report, headline>>

E_Close ==
    /\ prog = "ebay" /\ pc = "close"
    /\ session' = "closed"
    /\ pc' = "photo"
    /\ UNCHANGED <<outcome, raisedBy>>
    /\ NoPageOp
    /\ UNCHANGED <<ctlVars, statusVars, pageVars, ladderVars, report, headline>>

E_SendPhoto ==
    /\ prog = "ebay" /\ pc = "photo"
    /\ \/ /\ photoSends' = Append(photoSends, [photo |-> screenshot, caption |-> "EbayResults", query |-> Esc(query),
                                           parse_mode |-> "MarkdownV2"])
          /\ Goto_(IF products = <<>> THEN "empty_send" ELSE "final_edit")
       \/ /\ Abort("messaging")
          /\ UNCHANGED photoSends
    /\ NoPageOp
    /\ UNCHANGED <<ctlVars, log, textSends, resends, editFails, msg, owner, pageVars, ladderVars, report, headline>>

\* `if not products:` a new plain message is sent, then return
E_EmptySend ==
    /\ prog = "ebay" /\ pc = "empty_send"
    /\ \/ /\ log' = Append(log, [text |-> "RenderedButEmpty", via |-> "send", target |-> "new",
                                  msg |-> 0])
          /\ textSends' = textSends + 1
          /\ Return
          /\ UNCHANGED <<resends, photoSends, editFails, msg, owner>>
       \/ /\ Abort("messaging")
          /\ UNCHANGED statusVars
    /\ NoPageOp
    /\ UNCHANGED <<ctlVars, pageVars, ladderVars, report, headline>>

\* lines 179-210: the report is built and written to the status message
\* (msg is set whenever no edit_message_id was given, so the last branch,
\* a plain send, is never taken)
E_FinalEdit ==
    /\ prog = "ebay" /\ pc = "final_edit"
    /\ report' = EbayReport(products)
    /\ headline' = Esc(query)
    /\ EditMessageProduct("EbayReport", "done")
    /\ NoPageOp
    /\ UNCHANGED <<ctlVars, pageVars, ladderVars>>

EbayNext ==
    \/ E_Start \/ E_Launch \/ E_EditLoading \/ E_Goto \/ E_EditRender
    \/ E_Scroll \/ E_EditExtract \/ E_Wait \/ E_Evaluate \/ E_Shot
    \/ E_Close \/ E_SendPhoto \/ E_EmptySend \/ E_FinalEdit

----------------------------------------------------------------------------
(* AmazonProductScraper.scrape_product, src/scrape/product_scraper.py *)

PriceNotAvailable == <<"n","o","p","r","i","c","e">>
Unknown == <<"u","n","k","n","o","w","n">>
NoFeatures == <<"n","o","f","e","a","t","u","r","e","s">>
Unset == <<"u","n","s","e","t">>

\* line 59-60: `inner_text(...) or "N/A"`, then strip (the read itself
\* raises when the element is absent)
AmazonTitle(el) == Trim(IF el.innerText = <<>> THEN NA ELSE el.innerText)

\* lines 63-70: the first locator whose read does not raise gives the price
AmazonPrice(l1, l2) ==
    IF l1 # NoEl THEN l1.innerText
    ELSE IF l2 # NoEl THEN l2.innerText
    ELSE PriceNotAvailable

\* lines 73-78: rating is assigned before split()[0] is taken, so an
\* IndexError of the split leaves the raw text
AmazonRating(el) ==
    IF el = NoEl THEN NoRating
    ELSE IF HasToken(el.innerText) THEN FirstToken(el.innerText)
    ELSE el.innerText

\* lines 81-85
AmazonAvailability(el) == IF el = NoEl THEN Unknown ELSE Trim(el.innerText)

\* lines 88-96: texts of the first five bullets that are not blank; a read
\* that raises replaces the whole list
RECURSIVE NonBlank(_)
NonBlank(fs) ==
    IF fs = <<>> THEN <<>>
    ELSE IF Trim(Head(fs).innerText) # <<>>
         THEN <<Trim(Head(fs).innerText)>> \o NonBlank(Tail(fs))
    ELSE NonBlank(Tail(fs))

AmazonFeatures(fs) ==
    LET five == SubSeq(fs, 1, Min(Len(fs), AmazonFeatureMax)) IN
    IF \E i \in 1..Len(five) : five[i] = NoEl THEN <<NoFeatures>>
    ELSE NonBlank(five)

A_Start ==
    /\ prog = "amazon" /\ pc = "start"
    /\ IF AmazonHasEditId(editId)
       THEN IF editId = "undefined"
            THEN /\ Abort("argument")       \* int("undefined") raises ValueError
                 /\ UNCHANGED statusVars
            ELSE EditMessageProduct("LoadingDetails", "launch")
       ELSE \/ /\ log' = Append(log, [text |-> "FetchingDetails", via |-> "send", target |-> "tracked",
                                  msg |-> Len(owner) + 1])
               /\ textSends' = textSends + 1
               /\ msg' = Len(owner) + 1
               /\ owner' = Append(owner, rid)
               /\ Goto_("launch")
               /\ UNCHANGED <<resends, photoSends, editFails>>
            \/ /\ Abort("messaging")
               /\ UNCHANGED statusVars
    /\ NoPageOp
    /\ UNCHANGED <<ctlVars, pageVars, ladderVars, report, headline>>

A_Launch ==
    /\ prog = "amazon" /\ pc = "launch"
    /\ \/ /\ pc' = "goto"
          /\ session' = "open"
          /\ UNCHANGED <<outcome, raisedBy>>
       \/ Abort("launch")
    /\ NoPageOp
    /\ UNCHANGED <<ctlVars, statusVars, pageVars, ladderVars, report, headline>>

A_Goto ==
    /\ prog = "amazon" /\ pc = "goto"
    /\ PageOp("goto")
    /\ \/ Goto_("title")
       \/ Abort("navigation")
    /\ UNCHANGED <<ctlVars, statusVars, pageVars, ladderVars, report, headline>>

A_Title ==
    /\ prog = "amazon" /\ pc = "title"
    /\ PageOp("text")
    /\ IF page.title = NoEl
       THEN /\ Abort("page")
            /\ UNCHANGED fields
       ELSE /\ fields' = [fields EXCEPT !.title = AmazonTitle(page.title)]
            /\ Goto_("price")
    /\ UNCHANGED <<ctlVars, statusVars, ladderVars, page, title, scrollN,
                   itemIdx, products, screenshot, report, headline>>

A_Price ==
    /\ prog = "amazon" /\ pc = "price"
    /\ PageOp("text")
    /\ fields' = [fields EXCEPT !.price = AmazonPrice(page.price1, page.price2)]
    /\ Goto_("rating")
    /\ UNCHANGED <<ctlVars, statusVars, ladderVars, page, title, scrollN,
                   itemIdx, products, screenshot, report, headline>>

A_Rating ==
    /\ prog = "amazon" /\ pc = "rating"
    /\ PageOp("text")
    /\ fields' = [fields EXCEPT !.rating = AmazonRating(page.rating)]
    /\ Goto_("availability")
    /\ UNCHANGED <<ctlVars, statusVars, ladderVars, page, title, scrollN,
                   itemIdx, products, screenshot, report, headline>>

A_Availability ==
    /\ prog = "amazon" /\ pc = "availability"
    /\ PageOp("text")
    /\ fields' = [fields EXCEPT !.availability = AmazonAvailability(page.availability)]
    /\ Goto_("features")
    /\ UNCHANGED <<ctlVars, statusVars, ladderVars, page, title, scrollN,
                   itemIdx, products, screenshot, report, headline>>

A_Features ==
    /\ prog = "amazon" /\ pc = "features"
    /\ PageOp("text")
    /\ fields' = [fields EXCEPT !.features = AmazonFeatures(page.features)]
    /\ Goto_("prime")
    /\ UNCHANGED <<ctlVars, statusVars, ladderVars, page, title, scrollN,
                   itemIdx, products, screenshot, report, headline>>

A_Prime ==
    /\ prog = "amazon" /\ pc = "prime"
    /\ PageOp("count")
    /\ \/ /\ fields' = [fields EXCEPT !.prime = page.prime]
          /\ Goto_("close")
       \/ /\ Abort("page")
          /\ UNCHANGED fields
    /\ UNCHANGED <<ctlVars, statusVars, ladderVars, page, title, scrollN,
                   itemIdx, products, screenshot, report, headline>>

A_Close ==
    /\ prog = "amazon" /\ pc = "close"
    /\ session' = "closed"
    /\ pc' = "final_edit"
    /\ UNCHANGED <<outcome, raisedBy>>
    /\ NoPageOp
    /\ UNCHANGED <<ctlVars, statusVars, pageVars, ladderVars, report, headline>>

\* lines 103-149 (msg is set whenever no edit_message_id was given, so the
\* last branch, a plain send, is never taken)
A_FinalEdit ==
    /\ prog = "amazon" /\ pc = "final_edit"
    /\ report' = <<fields>>
    /\ UNCHANGED headline
    /\ EditMessageProduct("ProductDetails", "done")
    /\ NoPageOp
    /\ UNCHANGED <<ctlVars, pageVars, ladderVars>>

AmazonNext ==
    \/ A_Start \/ A_Launch \/ A_Goto \/ A_Title \/ A_Price \/ A_Rating
    \/ A_Availability \/ A_Features \/ A_Prime \/ A_Close \/ A_FinalEdit

----------------------------------------------------------------------------
(* AmazonSearchScraper.scrape_search, src/scrape/search_scraper.py *)

V_SendInit ==
    /\ prog = "search_v1" /\ pc = "start"
    /\ \/ /\ log' = Append(log, [text |-> "Initializing", via |-> "send", target |-> "tracked",
                                  msg |-> Len(owner) + 1])
          /\ textSends' = textSends + 1
          /\ msg' = Len(owner) + 1
          /\ owner' = Append(owner, rid)
          /\ Goto_("launch")
          /\ UNCHANGED <<resends, photoSends, editFails>>
       \/ /\ Abort("messaging")
          /\ UNCHANGED statusVars
    /\ NoPageOp
    /\ UNCHANGED <<ctlVars, pageVars, ladderVars, report, headline>>

V_Launch ==
    /\ prog = "search_v1" /\ pc = "launch"
    /\ \/ /\ pc' = "edit_loading"
          /\ session' = "open"
          /\ UNCHANGED <<outcome, raisedBy>>
       \/ Abort("launch")
    /\ NoPageOp
    /\ UNCHANGED <<ctlVars, statusVars, pageVars, ladderVars, report, headline>>

V_EditLoading ==
    /\ prog = "search_v1" /\ pc = "edit_loading"
    /\ EditMessageSearch("Loading1of4")
    /\ Goto_("goto")
    /\ NoPageOp
    /\ UNCHANGED <<ctlVars, pageVars, ladderVars, report, headline>>

V_Goto ==
    /\ prog = "search_v1" /\ pc = "goto"
    /\ PageOp("goto")
    /\ \/ Goto_("edit_waiting")
       \/ Abort("navigation")
    /\ UNCHANGED <<ctlVars, statusVars, pageVars, ladderVars, report, headline>>

V_EditWaiting ==
    /\ prog = "search_v1" /\ pc = "edit_waiting"
    /\ EditMessageSearch("Waiting2of4")
    /\ Goto_("wait")
    /\ NoPageOp
    /\ UNCHANGED <<ctlVars, pageVars, ladderVars, report, headline>>

\* line 57: wait_for_selector outside any try; its timeout propagates
V_Wait ==
    /\ prog = "search_v1" /\ pc = "wait"
    /\ PageOp("wait")
    /\ IF page.results > 0 THEN Goto_("edit_screenshot") ELSE Abort("page")
    /\ UNCHANGED <<ctlVars, statusVars, pageVars, ladderVars, report, headline>>

V_EditScreenshot ==
    /\ prog = "search_v1" /\ pc = "edit_screenshot"
    /\ EditMessageSearch("Screenshot3of4")
    /\ Goto_("scroll")
    /\ NoPageOp
    /\ UNCHANGED <<ctlVars, pageVars, ladderVars, report, headline>>

V_Scroll ==
    /\ prog = "search_v1" /\ pc = "scroll"
    /\ PageOp("scroll")
    /\ \/ Goto_("shot")
       \/ Abort("page")
    /\ UNCHANGED <<ctlVars, statusVars, pageVars, ladderVars, report, headline>>

V_Shot ==
    /\ prog = "search_v1" /\ pc = "shot"
    /\ PageOp("screenshot")
    /\ \/ /\ screenshot' = "clip"
          /\ Goto_("edit_extracting")
       \/ /\ Abort("page")
          /\ UNCHANGED screenshot
    /\ UNCHANGED <<ctlVars, statusVars, ladderVars, page, title, scrollN,
                   itemIdx, products, fields, report, headline>>

V_EditExtracting ==
    /\ prog = "search_v1" /\ pc = "edit_extracting"
    /\ EditMessageSearch("Extracting4of4")
    /\ Goto_("items")
    /\ NoPageOp
    /\ UNCHANGED <<ctlVars, pageVars, ladderVars, report, headline>>

\* line 78: `await page.locator(...).all()[:5]` subscripts the coroutine
\* object that all() returns before it is awaited: a TypeError is raised on
\* every run, no query is made, and lines 80-142 are never reached.
V_Items ==
    /\ prog = "search_v1" /\ pc = "items"
    /\ Abort("type_error")
    /\ NoPageOp
    /\ UNCHANGED <<ctlVars, statusVars, pageVars, ladderVars, report, headline>>

SearchV1Next ==
    \/ V_SendInit \/ V_Launch \/ V_EditLoading \/ V_Goto \/ V_EditWaiting
    \/ V_Wait \/ V_EditScreenshot \/ V_Scroll \/ V_Shot \/ V_EditExtracting
    \/ V_Items

----------------------------------------------------------------------------

InitCommon ==
    /\ pc = "start"
    /\ outcome = "running"
    /\ raisedBy = "none"
    /\ session = "none"
    /\ log = <<>>
    /\ textSends = 0
    /\ resends = 0
    /\ photoSends = <<>>
    /\ editFails = 0
    /\ msg = 0
    /\ owner = <<>>
    /\ ops = {}
    /\ opsAfterClose = {}
    /\ title = {}
    /\ scrollN = 0
    /\ selIdx = 1
    /\ elements = 0
    /\ found_selector = 0
    /\ itemIdx = 1
    /\ products = <<>>
    /\ screenshot = "none"
    /\ fields = [title |-> Unset, price |-> Unset, rating |-> Unset,
                 availability |-> Unset, features |-> <<>>, prime |-> FALSE]
    /\ report = <<>>
    /\ headline = <<>>

Init ==
    /\ InitCommon
    /\ query \in QuerySamples
    /\ rid = 1
    /\ other = <<>>
    /\ \/ /\ prog = "search" /\ editId = "None"
          /\ \E w \in SearchWorlds : page = w.page /\ containers = w.containers
       \/ prog = "search_v1" /\ editId = "None" /\ page \in SearchV1Pages /\ containers = <<>>
       \/ prog = "ebay" /\ editId \in EditIds /\ page \in EbayPages /\ containers = <<>>
       \/ prog = "amazon" /\ editId \in EditIds /\ page \in AmazonPages /\ containers = <<>>

Next == SearchNext \/ EbayNext \/ AmazonNext \/ SearchV1Next

Spec == Init /\ [][Next]_vars

----------------------------------------------------------------------------
(* Two requests on one scraper object *)

\* Everything a coroutine of scrape_search / scrape_product holds is a local
\* variable of the call or a position in it; the scraper object holds only
\* self.bot, which no request assigns. The chat (owner) belongs to neither.
Locals ==
    [prog |-> prog, editId |-> editId, containers |-> containers, query |-> query,
     rid |-> rid, pc |-> pc, outcome |-> outcome, raisedBy |-> raisedBy,
     session |-> session, log |-> log, textSends |-> textSends,
     resends |-> resends, photoSends |-> photoSends, editFails |-> editFails,
     msg |-> msg, ops |-> ops, opsAfterClose |-> opsAfterClose, page |-> page,
     title |-> title, scrollN |-> scrollN, selIdx |-> selIdx,
     elements |-> elements, found_selector |-> found_selector,
     itemIdx |-> itemIdx, products |-> products, screenshot |-> screenshot,
     fields |-> fields, report |-> report, headline |-> headline]

\* the running coroutine takes the place of `other`, whose locals come back,
\* except those named in kept, which stay as the running coroutine left them
Resume(kept) ==
    /\ other.pc # "done"
    /\ other' = Locals
    /\ prog' = other.prog /\ editId' = other.editId
    /\ containers' = other.containers /\ query' = other.query
    /\ rid' = other.rid /\ pc' = other.pc /\ outcome' = other.outcome
    /\ raisedBy' = other.raisedBy
    /\ session' = IF "session" \in kept THEN session ELSE other.session
    /\ log' = other.log /\ textSends' = other.textSends
    /\ resends' = other.resends /\ photoSends' = other.photoSends
    /\ editFails' = other.editFails
    /\ msg' = IF "msg" \in kept THEN msg ELSE other.msg
    /\ ops' = other.ops /\ opsAfterClose' = other.opsAfterClose
    /\ page' = other.page /\ title' = other.title /\ scrollN' = other.scrollN
    /\ selIdx' = other.selIdx /\ elements' = other.elements
    /\ found_selector' = other.found_selector /\ itemIdx' = other.itemIdx
    /\ products' = other.products /\ screenshot' = other.screenshot
    /\ fields' = other.fields /\ report' = other.report
    /\ headline' = other.headline
    /\ UNCHANGED owner

\* the status message kept in an attribute of the scraper object
Switch_MsgOnSelf == Resume({"msg"})

\* At an await the running coroutine is suspended and the other one resumed.
Switch == Resume({})

\* What the two requests are given: both run the same scraper, on pages of
\* their own. The second request always has content to extract; the first
\* one may have none.
ConcInit ==
    LET ConcWorlds ==
            {[prog |-> "search", editId |-> "None", page |-> w.page,
              containers |-> w.containers] :
                w \in {v \in SearchWorlds :
                          /\ v.page \in {[i \in 1..NumSelectors |-> IF i = 2 THEN n ELSE 0] :
                                            n \in {0, 2}}
                          /\ v.page[2] = 0 => v.containers = Plain(MaxContainers)}} \cup
            {[prog |-> "ebay", editId |-> e, page |-> pg, containers |-> <<>>] :
                e \in {"None", "42"},
                pg \in {p \in EbayPages :
                           Len(p) = 0 \/ (Len(p) = 1 /\ p[1].root.h3 = El(Mouse))}}
    IN  /\ InitCommon
        /\ rid = 1
        /\ query = <<"A","_","B","*","C">>
        /\ \E w1, w2 \in ConcWorlds :
              /\ w1.prog = w2.prog
              /\ w2.editId = "None" /\ w2.containers \in {<<>>, Plain(MaxContainers)}
              /\ IF w2.prog = "search" THEN w2.page[2] = 2 ELSE Len(w2.page) = 1
              /\ prog = w1.prog /\ editId = w1.editId
              /\ page = w1.page /\ containers = w1.containers
              /\ other = [Locals EXCEPT !.prog = w2.prog, !.editId = w2.editId,
                                        !.page = w2.page, !.containers = w2.containers,
                                        !.rid = 2, !.query = <<"a","\\","b",".">>]

SpecConcurrent == ConcInit /\ [][SearchNext \/ EbayNext \/ Switch]_vars

----------------------------------------------------------------------------
(* Properties *)

Last(q) == q[Len(q)]
Terminal == {"Succeeded", "Failed", "Blocked", "Empty"}
Done == pc = "done"
SearchProgs == {"search", "search_v1"}
ProductProgs == {"ebay", "amazon"}

\* a run that wrote its report / a run whose page was classified as blocked
Succeeded == Done /\ outcome = "returned" /\ report # <<>>
BlockedRun == Done /\ outcome = "returned" /\ IsBlocked(title)

C2_SessionReleased == Done => session # "open"

C2_Witness ==
    Done /\ outcome = "raised" /\ raisedBy \in {"page", "messaging"} /\ session = "closed"

\* C3: a request of scrape_search or of the eBay scrape_product whose
\* navigation timed out ends with the terminal status Failed, and makes no
\* container query or field extraction.
C3_NavigationTimeoutFailed ==
    (prog \in {"search", "ebay"} /\ Done /\ raisedBy = "navigation") =>
        /\ log # <<>>
        /\ Phase(Last(log).text) = "Failed"
        /\ ops \cap {"query", "extract", "text"} = {}

\* C4: once the title read by scrape_search contains "captcha", no scroll,
\* container query, field extraction or report follows, and the request ends
\* by returning with Blocked as its last status.
C4_CaptchaBlocked ==
    (prog = "search" /\ "captcha" \in title) =>
        /\ pc \in {"blocked_edit", "blocked_close", "done"}
        /\ ops \cap {"scroll", "query", "extract"} = {}
        /\ report = <<>> /\ products = <<>>
        /\ pc # "blocked_edit" => Phase(Last(log).text) = "Blocked"
        /\ Done => outcome = "returned"

C4_Witness == prog = "search" /\ "captcha" \in title /\ "robot" \notin title /\ Done

\* C5 (as stated): in every scraper, at most one text message is created by
\* a send over one request, however many edits fail.
C5_OneSendEveryScraper == textSends <= 1

\* C5 (amended): edit_message of AmazonSearchScraper sends nothing when an
\* edit fails, so a search request creates at most one text message, its
\* first status; edit_message of the product scrapers sends the text as a
\* new message for each failed edit (the last one excepted when that send
\* itself raises).
C5_ResendOnlyInProductScrapers ==
    /\ prog \in SearchProgs => resends = 0 /\ textSends <= 1
    /\ prog \in ProductProgs =>
        /\ resends <= editFails /\ editFails <= resends + 1
        /\ resends < editFails => (Done /\ raisedBy = "messaging")

C5_Witness == prog = "search" /\ Done /\ editFails >= 3 /\ textSends = 1

\* C6: no status is emitted after a terminal status.
C6_NothingAfterTerminal ==
    \A i \in 1..(Len(log) - 1) : Phase(log[i].text) \notin Terminal

\* C7: a request that emitted a status ends with a terminal status on the
\* tracked status message.
C7_EndsWithTerminal ==
    (Done /\ log # <<>>) =>
        /\ Phase(Last(log).text) \in Terminal
        /\ Last(log).target = "tracked"

\* C8: no request is ended by the failure of a messaging call.
C8_MessagingNeverAborts == raisedBy # "messaging"

\* the first selector that returns more than th elements, 0 when none does
FirstAbove(pg, th) ==
    LET hits == {i \in 1..NumSelectors : pg[i] # Raises /\ pg[i] > th}
    IN  IF hits = {} THEN 0 ELSE CHOOSE i \in hits : \A j \in hits : i <= j

FirstWithText(els, dflt) ==
    LET hits == {i \in 1..Len(els) : els[i].exists /\ TextOf(els[i]) # <<>>}
    IN  IF hits = {} THEN dflt
        ELSE TextOf(els[CHOOSE i \in hits : \A j \in hits : i <= j])

\* C10: a field's value is the text of the first locator that exists and
\* yields non-empty text: the title and price ladders of the eBay script and
\* the price ladder of AmazonProductScraper.
C10_FirstLocatorWithText ==
    /\ (prog = "ebay" /\ "extract" \in ops) =>
         \A i \in 1..Len(page) :
            page[i].root.exists =>
                /\ LadderText(EbayTitleEls(page[i])) = FirstWithText(EbayTitleEls(page[i]), <<>>)
                /\ LadderText(EbayPriceEls(page[i])) = FirstWithText(EbayPriceEls(page[i]), <<>>)
    /\ (prog = "amazon" /\ fields.price # Unset) =>
         fields.price = FirstWithText(<<page.price1, page.price2>>, PriceNotAvailable)

\* the containers the extraction loop of scrape_search is given
Candidates == Prefix(Prefix(containers, elements), MaxItems)

\* the container carries an identifier and a title element with text
HasMandatory(it) == it.asin # <<>> /\ it.title.exists /\ it.title.innerText # <<>>
KeptBySearch(it) == HasMandatory(it) /\ SearchItem(it).ok

\* the records of the candidates of cs that carry both mandatory fields
RecordsOfValid(cs) ==
    LET kept == SelectSeq(cs, KeptBySearch)
    IN  [i \in 1..Len(kept) |-> SearchItem(kept[i])]

\* the anchor carries an identifier and some title text
EbayHasMandatory(a) ==
    /\ IdOf(a.href) # <<>>
    /\ a.root.exists
    /\ Trim(FirstWithText(EbayTitleEls(a), <<>>)) # <<>>

\* C11: a candidate without an identifier or without a title gives no
\* record; the batch is, in page order, the records of the candidates that
\* carry both. For scrape_search the batch after the loop is compared with
\* the candidates; for the eBay script every record comes from an anchor
\* with both fields, at increasing page positions.
C11_MandatoryFieldsKept ==
    /\ (prog = "search" /\ pc = "close") => products = RecordsOfValid(Candidates)
    /\ (prog = "ebay" /\ pc = "shot") =>
         \E f \in [1..Len(products) -> 1..Len(page)] :
            /\ \A k \in 1..Len(products) :
                  /\ EbayHasMandatory(page[f[k]])
                  /\ products[k].id = IdOf(page[f[k]].href)
                  /\ products[k].title =
                        Prefix(Trim(FirstWithText(EbayTitleEls(page[f[k]]), <<>>)), EbayTitleMax)
            /\ \A k \in 1..(Len(products) - 1) : f[k] < f[k + 1]

\* the first anchor of pg that carries identifier id and passes every test
\* of the script
FirstGoodAnchor(pg, id) ==
    LET hits == {i \in 1..Len(pg) : IdOf(pg[i].href) = id /\ EbayItem(pg[i], {}).ok}
    IN  pg[CHOOSE i \in hits : \A j \in hits : i <= j]

\* C12: within one batch no two records share an identifier; of the
\* candidates that carry the same identifier the first in page order is the
\* one kept. Batches of scrape_search and of the eBay script.
C12_UniqueIdentifiers ==
    /\ prog = "search" =>
         \A i, j \in 1..Len(products) : products[i].asin = products[j].asin => i = j
    /\ prog = "ebay" =>
         /\ \A i, j \in 1..Len(products) : products[i].id = products[j].id => i = j
         /\ \A k \in 1..Len(products) :
               products[k] = EbayItem(FirstGoodAnchor(page, products[k].id), {})

PassesChecks(it) == SearchItem(it).ok

\* C13: the cap is applied to the records that passed the checks: when the
\* accepted selector yields all MaxContainers containers of the page and at
\* least MaxItems of them pass the checks of the loop, a request that
\* returns lists exactly MaxItems entries, numbered from 1, the records of
\* the first MaxItems passing containers, and ends Succeeded.
C13_CapAfterChecks ==
    (/\ prog = "search" /\ Done /\ outcome = "returned"
     /\ elements = MaxContainers
     /\ Len(SelectSeq(Prefix(containers, elements), PassesChecks)) >= MaxItems)
    => /\ Len(report) = MaxItems
       /\ \A i \in 1..Len(report) :
             /\ report[i].n = i
             /\ report[i].asin =
                   SelectSeq(Prefix(containers, elements), PassesChecks)[i].asin
       /\ Phase(Last(log).text) = "Succeeded"

\* a read of a field of the container raises: a timeout, or the IndexError
\* of split()[0] on a rating text without a token
Fails(it) ==
    \/ it.raises
    \/ it.rating.exists /\ ~HasToken(it.rating.innerText)

Unfailing(it) == ~Fails(it) /\ it.asin # <<>>

\* C14: an exception raised while a field of one candidate is read skips
\* that candidate only: no request ends by an exception inside the loop
\* (once the loop has begun, only the later send_photo can raise), every
\* candidate is visited, and after the loop the batch holds the records of
\* the other candidates, each as it would be alone, wherever the failing
\* one stands.
C14_ItemFailureIsolated ==
    /\ (prog = "search" /\ outcome = "raised" /\ "extract" \in ops) =>
         raisedBy = "messaging" /\ itemIdx = Len(Candidates) + 1
    /\ (prog = "search" /\ pc = "close") =>
         /\ itemIdx = Len(Candidates) + 1
         /\ LET others == SelectSeq(Candidates, Unfailing)
            IN  products = [i \in 1..Len(others) |-> SearchItem(others[i])]

C14_Witness ==
    /\ prog = "search" /\ pc = "close"
    /\ Len(Candidates) = MaxItems
    /\ Candidates[2].raises /\ Candidates[4].raises
    /\ Len(products) = MaxItems - 2
    /\ products[2].asin = Asin(3)

\* C15: a request that reached the page, found no blocking keyword in its
\* title and extracted nothing ends with an Empty status and shows no
\* Blocked status on the way; a page without the expected container never
\* makes the request end by an exception.
C15_EmptyNotBlocked ==
    /\ (prog = "search" /\ Done /\ outcome = "returned" /\ ~IsBlocked(title)
          /\ report = <<>>) =>
         /\ Phase(Last(log).text) = "Empty"
         /\ \A i \in 1..Len(log) : Phase(log[i].text) # "Blocked"
    /\ (prog = "search_v1" /\ page.results = 0 /\ "wait" \in ops) =>
         outcome # "raised"

\* a photo sent as diagnostic evidence, its caption naming the reason
Diagnostic(p) == p.caption = "DebugInfo"

EmptyRun == Done /\ outcome = "returned" /\ ~IsBlocked(title) /\ report = <<>>

\* C16: a request that ends Blocked or with an empty result has sent
\* exactly one photo, a diagnostic one; a request that ends otherwise has
\* sent no diagnostic photo.
C16_DiagnosticScreenshot ==
    (prog \in {"search", "ebay"} /\ Done /\ outcome = "returned") =>
        IF BlockedRun \/ EmptyRun
        THEN Len(photoSends) = 1 /\ Diagnostic(photoSends[1])
        ELSE \A i \in 1..Len(photoSends) : ~Diagnostic(photoSends[i])

\* t with each backslash and each punctuation character of _esc preceded by
\* one backslash, and every other character as it is
RECURSIVE Escaped(_)
Escaped(t) ==
    IF t = <<>> THEN <<>>
    ELSE (IF Head(t) = Backslash \/ Head(t) \in {EscChars[i] : i \in 1..Len(EscChars)}
          THEN <<Backslash, Head(t)>> ELSE <<Head(t)>>) \o Escaped(Tail(t))

\* C17: what _esc returns is its input with one backslash added before
\* every backslash and every punctuation character of the fixed set, the
\* other characters unchanged and the order kept; an added backslash is not
\* escaped again. Checked on every text the eBay scraper hands to _esc: the
\* product name (caption and heading) and the title, price and shipping
\* text of every listed record.
C17_EscapeAddsOneBackslash ==
    prog = "ebay" =>
        /\ \A i \in 1..Len(photoSends) : photoSends[i].query = Escaped(query)
        /\ outcome = "returned" /\ report # <<>> => headline = Escaped(query)
        /\ \A i \in 1..Len(report) :
              /\ report[i].title = Escaped(Prefix(products[i].title, EbayReportTitleMax))
              /\ report[i].price = Escaped(products[i].price)
              /\ report[i].ship = Escaped(products[i].ship)

C17_Witness ==
    /\ prog = "ebay" /\ Done /\ outcome = "returned"
    /\ query = <<"A","_","B","*","C">>
    /\ headline = <<"A","\\","_","B","\\","*","C">>
    /\ Len(report) = 2
    /\ report[2].price = <<"$","9","\\",".","5">>

\* C18: every raw text placed into a markup-parsed caption or report has
\* passed through the escape function exactly once: what is written is
\* Escaped(raw), for the query and for each field of each listed record, in
\* the report of every scraper.
C18_EscapedExactlyOnce ==
    /\ \A i \in 1..Len(photoSends) :
          photoSends[i].parse_mode # "None" => photoSends[i].query = Escaped(query)
    /\ (prog = "ebay" /\ report # <<>>) =>
          /\ headline = Escaped(query)
          /\ \A i \in 1..Len(report) :
                /\ report[i].title = Escaped(Prefix(products[i].title, EbayReportTitleMax))
                /\ report[i].price = Escaped(products[i].price)
                /\ report[i].ship = Escaped(products[i].ship)
    /\ (prog = "search" /\ report # <<>>) =>
          /\ headline = Escaped(query)
          /\ \A i \in 1..Len(report) :
                /\ report[i].title = Escaped(products[i].title)
                /\ report[i].price = Escaped(products[i].price)
                /\ report[i].rating = Escaped(products[i].rating)
                /\ report[i].asin = Escaped(products[i].asin)
    /\ (prog = "amazon" /\ report # <<>>) =>
          /\ report[1].title = Escaped(fields.title)
          /\ report[1].price = Escaped(fields.price)
          /\ report[1].rating = Escaped(fields.rating)
          /\ report[1].availability = Escaped(fields.availability)

\* the records the report lists, and their identifiers
Listed == IF prog = "ebay" THEN Prefix(products, EbayReportMax) ELSE products
IdOfRecord(r) == IF prog = "ebay" THEN r.id ELSE r.asin

RecordsAlone ==
    LET sel == FirstAbove(page, 0)
        n == IF sel = 0 THEN 0 ELSE page[sel]
        kept == SelectSeq(Prefix(Prefix(containers, n), MaxItems), PassesChecks)
    IN  [i \in 1..Len(kept) |-> SearchItem(kept[i])]

StatusAlone ==
    IF prog = "search"
    THEN IF IsBlocked(title) THEN "CaptchaDetected"
         ELSE IF FirstAbove(page, 0) = 0 THEN "MayBeBlocking"
         ELSE IF RecordsAlone = <<>> THEN "NoValidProducts" ELSE "Results"
    ELSE IF EbayExtract(page) = <<>> THEN "RenderedButEmpty" ELSE "EbayReport"

\* the message the status entry e of this request went to is its own: the
\* one its caller named, or one that a send of this request created
OwnMessage(e) ==
    IF e.target = "new" THEN e.msg = 0
    ELSE IF e.via = "edit" /\ IntOf(editId) # 0 THEN e.msg = IntOf(editId)
    ELSE e.msg \in 1..Len(owner) /\ owner[e.msg] = rid

\* C20: two requests on one scraper object, interleaved at every await,
\* share nothing: a request performs page operations only on the session it
\* launched and while it is open, its status writes go to its own message,
\* and its records, report and final status are those of a run alone on its
\* own page.
C20_NoSharedState ==
    /\ opsAfterClose = {}
    /\ \A i \in 1..Len(log) : OwnMessage(log[i])
    /\ (prog = "search" /\ pc = "close") => products = RecordsAlone
    /\ (prog = "ebay" /\ pc \in {"shot", "close", "photo", "empty_send", "final_edit"}) =>
          products = EbayExtract(page)
    /\ (Done /\ outcome = "returned") =>
          /\ Last(log).text = StatusAlone
          /\ report = IF StatusAlone = "Results" THEN SearchReport(RecordsAlone)
                      ELSE IF StatusAlone = "EbayReport" THEN EbayReport(EbayExtract(page))
                      ELSE <<>>

\* the first request finishes with a report while the second, started after
\* it, is suspended in the middle of its run
C20_Witness ==
    /\ rid = 1 /\ Done /\ Succeeded
    /\ owner = <<1, 2>>
    /\ other.pc \notin {"start", "done"}
    /\ other.session = "open"

\* the container gives a record when a read that times out counts as a
\* locator without match
RecordDespiteTimeout(it) == it.asin # <<>> /\ (it.raises \/ SearchItem(it).ok)

\* C21: a locator whose evaluation times out counts as a locator without
\* match: the next locator of the field is tried, or the placeholder of the
\* field is used, the other fields are kept and the request goes on. On the
\* product page a locator times out when its element is absent; so after the
\* title read on a page without title element the title is the placeholder,
\* a price, rating or availability read falls through to the next locator or
\* to the placeholder, and in scrape_search a container one of whose reads
\* times out still gives its record.
C21_LocatorTimeoutIsNoMatch ==
    /\ (prog = "amazon" /\ "text" \in ops /\ page.title = NoEl) =>
          /\ fields.title = NA
          /\ outcome # "raised"
    /\ (prog = "amazon" /\ fields.price # Unset /\ page.price1 = NoEl) =>
          fields.price = IF page.price2 = NoEl THEN PriceNotAvailable
                         ELSE page.price2.innerText
    /\ (prog = "amazon" /\ fields.rating # Unset /\ page.rating = NoEl) =>
          fields.rating = NoRating
    /\ (prog = "amazon" /\ fields.availability # Unset /\ page.availability = NoEl) =>
          fields.availability = Unknown
    /\ (prog = "search" /\ pc = "close") =>
          Len(products) = Len(SelectSeq(Candidates, RecordDespiteTimeout))

\* the identifier every edit of the request has to name: the one the caller
\* supplied, else the one the first status send returned
StatusId == IF IntOf(editId) # 0 THEN IntOf(editId) ELSE log[1].msg

EditsOnOneMessage ==
    /\ (log # <<>> /\ IntOf(editId) = 0) => log[1].via = "send" /\ log[1].msg # 0
    /\ \A i \in 1..Len(log) : log[i].via = "edit" => log[i].msg = StatusId

RatingShown(el) ==
    IF el.exists /\ HasToken(el.innerText) THEN FirstToken(el.innerText)
    ELSE NoRating

\* the container with a rating text without token taken as without rating
WithoutBlankRating(it) ==
    [it EXCEPT !.rating = IF HasToken(@.innerText) THEN @ ELSE NoEl]

ReadsAndHasAsin(it) == ~it.raises /\ it.asin # <<>>

\* C23: the rating shown is the leading token of the rating text or the
\* placeholder, never the raw text, and a rating text without token (empty,
\* or blanks only) changes nothing else: on the product page the rating
\* field is one of the two, and in scrape_search every candidate whose reads
\* succeed and which has an identifier gives its record, with the rating so
\* normalized and the other fields as read.
C23_RatingTokenOrPlaceholder ==
    /\ (prog = "amazon" /\ fields.rating # Unset) =>
          fields.rating = RatingShown(page.rating)
    /\ (prog = "search" /\ pc = "close") =>
          LET kept == SelectSeq(Candidates, ReadsAndHasAsin)
          IN  products = [i \in 1..Len(kept) |-> SearchItem(WithoutBlankRating(kept[i]))]

\* C24: every page operation is performed on a session that was launched and
\* is not yet closed, and a screenshot that is sent was captured on the open
\* session: no operation is recorded outside an open session, none exists
\* while no session was launched, a held screenshot comes from a screenshot
\* operation, and every photo sent carries one.
C24_PageOpsOnOpenSession ==
    /\ opsAfterClose = {}
    /\ session = "none" => ops = {}
    /\ screenshot # "none" => "screenshot" \in ops
    /\ \A i \in 1..Len(photoSends) :
          /\ photoSends[i].photo = screenshot
          /\ screenshot # "none"

\* a request that closed its session after the last page operation and then
\* sent the screenshot captured before
C24_Witness ==
    /\ prog \in {"search", "ebay"} /\ Succeeded
    /\ session = "closed"
    /\ {"goto", "scroll", "extract", "screenshot"} \subseteq ops
    /\ Len(photoSends) = 1 /\ photoSends[1].photo = "clip"

\* the status texts that carry a numbered listing
Listings == {"Results", "EbayReport"}

\* C25: a numbered listing is written only for a batch of at least one
\* record: whenever a status of a search scraper or of the eBay scraper
\* carries a listing, the batch is not empty and the listing has an entry
\* for each record (the first ten on eBay); a request whose batch is empty
\* ends without any listing.
C25_NoEmptyReport ==
    prog \in {"search", "search_v1", "ebay"} =>
        /\ (\E i \in 1..Len(log) : log[i].text \in Listings) =>
              /\ products # <<>>
              /\ Len(report) = Min(Len(products), EbayReportMax)
              /\ Len(report) >= 1
        /\ (Done /\ products = <<>>) =>
              /\ report = <<>>
              /\ \A i \in 1..Len(log) : log[i].text \notin Listings

\* a search whose candidates left exactly one record ends with a listing of
\* one entry
C25_Witness ==
    /\ prog = "search" /\ Succeeded
    /\ Len(Candidates) >= 2
    /\ Len(products) = 1 /\ Len(report) = 1
    /\ Last(log).text \in Listings

====
